---- MODULE Spec2Model ----
(***************************************************************************)
(* Model of the YouTube downloader: URL normalisation                      *)
(* (downloader.py, _normalize_url), file name sanitisation (utils.py,      *)
(* sanitize_filename) and the download pipeline (main.py,                  *)
(* process_download; downloader.py, download_video, download_audio_only,   *)
(* extract_audio, _convert_to_mp3) acting on a file system.                *)
(*                                                                         *)
(* Strings are sequences of code points (ord(c) of each character), so     *)
(* that character classes are the ones Python uses.                        *)
(***************************************************************************)
EXTENDS Integers, Sequences, FiniteSets

VARIABLES
  \* URL normaliser harness
  nshape, nid, nsuffix, nurl, nout1, nout2, nstep,
  \* file name sanitiser harness
  stitle, sout, sstep,
  \* download pipeline
  fs, runs, last, prev, produced

nvars == <<nshape, nid, nsuffix, nurl, nout1, nout2, nstep>>
svars == <<stitle, sout, sstep>>
dvars == <<fs, runs, last, prev, produced>>
vars == <<nshape, nid, nsuffix, nurl, nout1, nout2, nstep,
          stitle, sout, sstep, fs, runs, last, prev, produced>>

----------------------------------------------------------------------------
(* Bounds of the model *)

MaxIdLen == 2
MaxTitleLen == 3
PadSlack == 2
FileSize == 2
MaxRuns == 2

----------------------------------------------------------------------------
(* Generic string helpers *)

Min(S) == CHOOSE x \in S : \A y \in S : x <= y

\* all sequences over alphabet A of length 0..n
RECURSIVE SeqsUpTo(_, _)
SeqsUpTo(A, n) ==
  IF n = 0 THEN {<<>>}
  ELSE LET shorter == SeqsUpTo(A, n - 1)
       IN shorter \cup {Append(s, c) : s \in shorter, c \in A}

\* n copies of the character c
Rep(c, n) == [i \in 1..n |-> c]

\* the literal lit occurs in s at index i
MatchesAt(s, lit, i) ==
  /\ i + Len(lit) - 1 <= Len(s)
  /\ \A k \in 1..Len(lit) : s[i + k - 1] = lit[k]

\* Python's  lit in s
Contains(s, lit) == \E i \in 1..Len(s) : MatchesAt(s, lit, i)

----------------------------------------------------------------------------
(* downloader.py, _normalize_url *)

\* the character class [a-zA-Z0-9_-]
IsIdChar(c) ==
  \/ c \in 97..122
  \/ c \in 65..90
  \/ c \in 48..57
  \/ c = 95
  \/ c = 45

YoutuBeLit == <<121,111,117,116,117,46,98,101,47>>               \* youtu.be/
ShortsLit == <<121,111,117,116,117,98,101,46,99,111,109,47,
               115,104,111,114,116,115,47>>                      \* youtube.com/shorts/
WatchLit == <<121,111,117,116,117,98,101,46,99,111,109,47,
              119,97,116,99,104>>                                \* youtube.com/watch
VEqLit == <<118,61>>                                             \* v=
CanonicalPrefix == <<104,116,116,112,115,58,47,47,119,119,119,46,
                     121,111,117,116,117,98,101,46,99,111,109,47,
                     119,97,116,99,104,63,118,61>>  \* https://www.youtube.com/watch?v=
WrongHostPrefix == <<104,116,116,112,115,58,47,47,121,111,117,116,117,
                     46,98,101,47,119,97,116,99,104,63,118,61>>
                                                    \* https://youtu.be/watch?v=

\* positions where re.search(lit + '([a-zA-Z0-9_-]+)', s) can match
SearchPositions(s, lit) ==
  {i \in 1..Len(s) : /\ MatchesAt(s, lit, i)
                     /\ i + Len(lit) <= Len(s)
                     /\ IsIdChar(s[i + Len(lit)])}

\* end of the greedy run of id characters that starts at index start
IdRunEnd(s, start) ==
  CHOOSE j \in start..Len(s) :
    /\ \A k \in start..j : IsIdChar(s[k])
    /\ (j = Len(s) \/ ~IsIdChar(s[j + 1]))

\* match.group(1) of the leftmost match
SearchGroup(s, lit) ==
  LET i == Min(SearchPositions(s, lit))
      st == i + Len(lit)
  IN SubSeq(s, st, IdRunEnd(s, st))

\* a rebuilt URL on the wrong host
Canonical_WrongHost(video_id) == WrongHostPrefix \o video_id

\* f'https://www.youtube.com/watch?v={video_id}'
Canonical(video_id) == CanonicalPrefix \o video_id

normalize_url(url) ==
  IF SearchPositions(url, YoutuBeLit) # {}
    THEN Canonical(SearchGroup(url, YoutuBeLit))
  ELSE IF SearchPositions(url, ShortsLit) # {}
    THEN Canonical(SearchGroup(url, ShortsLit))
  ELSE IF Contains(url, WatchLit) /\ SearchPositions(url, VEqLit) # {}
    THEN Canonical(SearchGroup(url, VEqLit))
  ELSE url

----------------------------------------------------------------------------
(* utils.py, sanitize_filename *)

SanitizeMaxLen == 100
SanitizeKeepLen == 97

\* the class [\\/*?:"<>|]
Reserved == {92, 47, 42, 63, 58, 34, 60, 62, 124}

\* characters str.strip() removes (str.isspace), code points below 256
Whitespace == (9..13) \cup (28..32) \cup {133, 160}

Ellipsis == <<46,46,46>>

\* re.sub(r'[\\/*?:"<>|]', "_", filename)
ReplaceReserved(s) ==
  [i \in 1..Len(s) |-> IF s[i] \in Reserved THEN 95 ELSE s[i]]

\* str.strip()
Strip(s) ==
  LET keep == {i \in 1..Len(s) : s[i] \notin Whitespace}
  IN IF keep = {} THEN <<>>
     ELSE SubSeq(s, Min(keep), CHOOSE j \in keep : \A k \in keep : k <= j)

\* truncation that also fires at exactly the maximum length
Truncate_AtMax(s) ==
  IF Len(s) >= SanitizeMaxLen
    THEN SubSeq(s, 1, SanitizeKeepLen) \o Ellipsis
    ELSE s

\* if len(sanitized) > 100: sanitized = sanitized[:97] + "..."
Truncate(s) ==
  IF Len(s) > SanitizeMaxLen
    THEN SubSeq(s, 1, SanitizeKeepLen) \o Ellipsis
    ELSE s

sanitize_filename(filename) == Truncate(Strip(ReplaceReserved(filename)))

----------------------------------------------------------------------------
(* Inputs of the URL normaliser *)

IdAlphabet == {97, 66, 57, 95, 45}                    \* a B 9 _ -
Ids == SeqsUpTo(IdAlphabet, MaxIdLen) \ {<<>>}

UrlPrefixes == {<<>>,
                <<104,116,116,112,115,58,47,47,119,119,119,46>>}  \* https://www.
UrlSuffixes == {<<>>,
                <<38,116,61,49,48>>,                              \* &t=10
                <<63,116,61,53>>,                                 \* ?t=5
                <<38,102,101,97,116,117,114,101,61,
                  121,111,117,116,117,46,98,101,47,120>>}  \* &feature=youtu.be/x
OtherLit == <<101,120,97,109,112,108,101,46,99,111,109,47,
              112,97,103,101,47>>                          \* example.com/page/
WatchQueryLit == WatchLit \o <<63>> \o VEqLit              \* youtube.com/watch?v=

Shapes == {"short", "shorts", "watch", "other"}

ShapeLit(shape) ==
  CASE shape = "short" -> YoutuBeLit
    [] shape = "shorts" -> ShortsLit
    [] shape = "watch" -> WatchQueryLit
    [] shape = "other" -> OtherLit

BuildUrl(prefix, shape, id, suffix) == prefix \o ShapeLit(shape) \o id \o suffix

----------------------------------------------------------------------------
(* Inputs of the file name sanitiser *)

TitleAlphabet == {97, 32, 9, 1, 58, 47}          \* a, space, tab, \x01, :, /
ShortTitles == SeqsUpTo(TitleAlphabet, MaxTitleLen)
LongTitles ==
  {pre \o Rep(97, n) \o post :
     pre \in SeqsUpTo(TitleAlphabet, 1),
     post \in SeqsUpTo(TitleAlphabet, 1),
     n \in (SanitizeMaxLen - PadSlack)..(SanitizeMaxLen + PadSlack)}
ScenarioTitle == <<99,111,110,58,34,98,97,100,34,47,110,97,109,101>>
                                                         \* con:"bad"/name
Titles == ShortTitles \cup LongTitles \cup {ScenarioTitle}

----------------------------------------------------------------------------
(* Initial values of the three harnesses *)

NormInitIdle ==
  /\ nshape = "other" /\ nid = <<>> /\ nsuffix = <<>> /\ nurl = <<>>
  /\ nout1 = <<>> /\ nout2 = <<>> /\ nstep = 0

SanInitIdle == stitle = <<>> /\ sout = <<>> /\ sstep = 0

----------------------------------------------------------------------------
(* Specification of the URL normaliser: _normalize_url applied to an input *)
(* and then to its own output                                              *)

NormInit ==
  /\ nshape \in Shapes
  /\ nid \in Ids
  /\ nsuffix \in UrlSuffixes
  /\ \E prefix \in UrlPrefixes : nurl = BuildUrl(prefix, nshape, nid, nsuffix)
  /\ nout1 = <<>> /\ nout2 = <<>> /\ nstep = 0

Normalize ==
  /\ nstep = 0
  /\ nout1' = normalize_url(nurl)
  /\ nstep' = 1
  /\ UNCHANGED <<nshape, nid, nsuffix, nurl, nout2>>

Renormalize ==
  /\ nstep = 1
  /\ nout2' = normalize_url(nout1)
  /\ nstep' = 2
  /\ UNCHANGED <<nshape, nid, nsuffix, nurl, nout1>>

----------------------------------------------------------------------------
(* Specification of the sanitiser: sanitize_filename applied to a title *)

SanInit ==
  /\ stitle \in Titles
  /\ sout = <<>> /\ sstep = 0

Sanitize ==
  /\ sstep = 0
  /\ sout' = sanitize_filename(stitle)
  /\ sstep' = 1
  /\ UNCHANGED stitle


----------------------------------------------------------------------------
(* The video library the extraction client answers from, and the file      *)
(* system.  An optional value is the empty set (None) or a singleton.      *)

None == {}
Some(x) == {x}
The(o) == CHOOSE x \in o : TRUE

Mp3 == <<109,112,51>>                                   \* mp3
Webm == <<119,101,98,109>>                              \* webm
Mp4 == <<109,112,52>>                                   \* mp4
Res720 == <<55,50,48,112>>                              \* 720p
AudioInfix == <<95,97,117,100,105,111,46>>              \* _audio.
Mp3Ext == <<46,109,112,51>>                             \* .mp3

VideoStream == [resolution |-> Res720, subtype |-> Mp4, filesize |-> FileSize]
AudioMp3 == [resolution |-> <<>>, subtype |-> Mp3, filesize |-> FileSize]
AudioWebm == [resolution |-> <<>>, subtype |-> Webm, filesize |-> FileSize]

Videos ==
  { [id |-> <<97>>, title |-> <<84>>,                              \* a: "T"
     video |-> Some(VideoStream), audio |-> Some(AudioMp3)],
    [id |-> <<66>>, title |-> <<84,95,97,117,100,105,111>>,        \* B: "T_audio"
     video |-> Some(VideoStream), audio |-> Some(AudioWebm)],
    [id |-> <<57>>, title |-> <<32,32>>,                           \* 9: "  "
     video |-> Some(VideoStream), audio |-> Some(AudioWebm)],
    [id |-> <<95>>, title |-> <<97,58>>,                           \* _: "a:"
     video |-> None, audio |-> None] }

\* the URLs a user enters: one per video (both forms of the first), and one
\* URL that names no video
DownloadUrls ==
  { BuildUrl(<<>>, "short", <<97>>, <<>>),
    BuildUrl(<<>>, "watch", <<97>>, <<>>),
    BuildUrl(<<>>, "watch", <<66>>, <<>>),
    BuildUrl(<<>>, "short", <<57>>, <<>>),
    BuildUrl(<<>>, "shorts", <<95>>, <<>>),
    BuildUrl(<<>>, "other", <<97>>, <<>>) }

UrlKnown(url) == \E v \in Videos : Canonical(v.id) = url
VideoOf(url) == CHOOSE v \in Videos : Canonical(v.id) = url

\* os.path.join(directory, filename)
PathJoin(dir, filename) == [dir |-> dir, name |-> filename]

\* a check that never finds the file
Exists_Never(fsys, path) == FALSE

\* os.path.exists(path)
Exists(fsys, path) == path \in DOMAIN fsys

\* open(path, 'wb') followed by writes: the file holds content afterwards
WriteFile(fsys, path, content) ==
  [p \in DOMAIN fsys \cup {path} |-> IF p = path THEN content ELSE fsys[p]]

\* os.remove(path)
RemoveFile(fsys, path) == [p \in DOMAIN fsys \ {path} |-> fsys[p]]

\* os.rename(src, dst)
RenameFile(fsys, src, dst) ==
  [p \in (DOMAIN fsys \ {src}) \cup {dst} |-> IF p = dst THEN fsys[src] ELSE fsys[p]]

\* the file holds every byte of the stream it was fetched from
Complete(content) == content.len = content.total

\* str.lower() on ASCII
Lower(s) == [i \in 1..Len(s) |-> IF s[i] \in 65..90 THEN s[i] + 32 ELSE s[i]]

\* outcomes of a transfer or copy: -1 fails before the file is opened,
\* 0..n-1 fails after that many bytes, n completes
Outcomes == -1..FileSize

\* the outcomes <<dl, cv>> of the transfer and of the conversion of one
\* invocation: the conversion runs only after a transfer that completed, so
\* at most one of the two fails
Faults ==
  {<<dl, FileSize>> : dl \in Outcomes} \cup {<<FileSize, cv>> : cv \in Outcomes}

----------------------------------------------------------------------------
(* downloader.py, class YouTubeDownloader.  A downloader object is the     *)
(* record [yt, title, ok]: self.yt, self.title and what the last           *)
(* get_video_info returned.                                                *)

\* YouTubeDownloader.__init__
NewDownloader == [yt |-> None, title |-> <<>>, ok |-> FALSE]

\* the outcomes of get_video_info that raise after self.yt was set: at the
\* read of yt.title that sets self.title (line 58: "title_error" a
\* PytubeError, "other_error" any other exception) or at the reads of
\* yt.title, yt.author and yt.length that follow it (lines 59-61:
\* "info_error" a PytubeError, "info_other_error" any other exception)
BeforeTitle == {"title_error", "other_error"}
AfterTitle == {"info_error", "info_other_error"}
Propagating == {"other_error", "info_other_error"}
MetaOutcomes == {"ok"} \cup BeforeTitle \cup AfterTitle

\* get_video_info: YouTube(self.url) raises PytubeError for a URL that names
\* no video (self.yt stays None); an exception raised later in the try
\* leaves self.yt set, and self.title too when it is raised after line 58;
\* ok is FALSE unless the method returned True
get_video_info(url, meta) ==
  IF ~UrlKnown(url) THEN NewDownloader
  ELSE IF meta \in BeforeTitle
    THEN [NewDownloader EXCEPT !.yt = Some(VideoOf(url))]
  ELSE IF meta \in AfterTitle
    THEN [yt |-> Some(VideoOf(url)),
          title |-> sanitize_filename(VideoOf(url).title),
          ok |-> FALSE]
  ELSE [yt |-> Some(VideoOf(url)),
        title |-> sanitize_filename(VideoOf(url).title),
        ok |-> TRUE]

\* stream.download(output_path, filename): the file is opened for writing
\* and receives dl bytes of the stream
StreamDownload(fsys, path, stream, vid, dl) ==
  IF dl = -1 THEN fsys
  ELSE WriteFile(fsys, path, [vid |-> vid, len |-> dl, total |-> stream.filesize])

\* a conversion that reports success once it opened the output, whatever
\* it wrote afterwards
convert_to_mp3_swallow(fsys, input, output, cv) ==
  IF cv = -1 \/ input \notin DOMAIN fsys THEN [fs |-> fsys, raised |-> TRUE]
  ELSE LET c == fsys[input]
           n == IF cv >= c.len THEN c.len ELSE cv
       IN [fs |-> WriteFile(fsys, output,
                            [vid |-> c.vid, len |-> n, total |-> c.total]),
           raised |-> FALSE]

\* _convert_to_mp3: copies input to output; an exception or interrupt
\* before the output is opened (cv = -1) writes nothing, one after cv bytes
\* leaves them in output
convert_to_mp3(fsys, input, output, cv) ==
  IF cv = -1 \/ input \notin DOMAIN fsys THEN [fs |-> fsys, raised |-> TRUE]
  ELSE LET c == fsys[input]
           n == IF cv >= c.len THEN c.len ELSE cv
       IN [fs |-> WriteFile(fsys, output,
                            [vid |-> c.vid, len |-> n, total |-> c.total]),
           raised |-> cv < c.len]

\* what a method call leaves: the file system, the downloader, the returned
\* path, and a log of what the call did
NoResult(fsys, d) ==
  [fs |-> fsys, self |-> d, ret |-> None,
   selected |-> FALSE, called |-> FALSE, skipRet |-> None,
   built |-> {}, temp |-> None, tempWritten |-> FALSE]

\* download_video: the best progressive stream, fetched unless the file exists
download_video(fsys, d0, url, meta, streams, dl) ==
  LET d == IF d0.yt = None THEN get_video_info(url, meta) ELSE d0
      base == NoResult(fsys, d)
  IN IF d0.yt = None /\ ~d.ok THEN base
     ELSE IF streams # "ok" THEN base
     ELSE IF The(d.yt).video = None THEN base
     ELSE
       LET stream == The(The(d.yt).video)
           filename == d.title \o <<95>> \o stream.resolution
                         \o <<46>> \o stream.subtype
           filepath == PathJoin("videos", filename)
           sel == [base EXCEPT !.selected = TRUE, !.built = {filepath}]
       IN IF Exists(fsys, filepath)
            THEN [sel EXCEPT !.ret = Some(filepath), !.skipRet = Some(filepath)]
            ELSE [sel EXCEPT
                    !.fs = StreamDownload(fsys, filepath, stream, The(d.yt).id, dl),
                    !.called = TRUE,
                    !.ret = IF dl = stream.filesize THEN Some(filepath) ELSE None]

\* download_audio_only: the best audio stream, fetched under a temporary
\* name and converted or renamed to <title>.mp3
download_audio_only(fsys, d0, url, meta, streams, dl, cv) ==
  LET d == IF d0.yt = None THEN get_video_info(url, meta) ELSE d0
      base == NoResult(fsys, d)
  IN IF d0.yt = None /\ ~d.ok THEN base
     ELSE IF streams # "ok" THEN base
     ELSE IF The(d.yt).audio = None THEN base
     ELSE
       LET stream == The(The(d.yt).audio)
           temp_filepath == PathJoin("audio", d.title \o AudioInfix \o stream.subtype)
           mp3_filepath == PathJoin("audio", d.title \o Mp3Ext)
           sel == [base EXCEPT !.selected = TRUE,
                               !.built = {temp_filepath, mp3_filepath},
                               !.temp = Some(temp_filepath)]
           fs1 == StreamDownload(fsys, temp_filepath, stream, The(d.yt).id, dl)
           got == [sel EXCEPT !.fs = fs1, !.called = TRUE, !.tempWritten = (dl # -1)]
           conv == convert_to_mp3(fs1, temp_filepath, mp3_filepath, cv)
       IN IF Exists(fsys, mp3_filepath)
            THEN [sel EXCEPT !.ret = Some(mp3_filepath), !.skipRet = Some(mp3_filepath)]
          ELSE IF dl # stream.filesize THEN got
          ELSE IF Lower(stream.subtype) # Mp3
            THEN IF conv.raised THEN [got EXCEPT !.fs = conv.fs]
                 ELSE [got EXCEPT
                         !.fs = IF Exists(conv.fs, temp_filepath)
                                  THEN RemoveFile(conv.fs, temp_filepath)
                                  ELSE conv.fs,
                         !.ret = Some(mp3_filepath)]
          ELSE [got EXCEPT !.fs = RenameFile(fs1, temp_filepath, mp3_filepath),
                           !.ret = Some(mp3_filepath)]

\* extract_audio: the downloaded video converted to <title>.mp3
extract_audio(fsys, d, video_path, cv) ==
  LET base == NoResult(fsys, d)
      mp3_filepath == PathJoin("audio", d.title \o Mp3Ext)
      conv == convert_to_mp3(fsys, The(video_path), mp3_filepath, cv)
  IN IF video_path = None THEN base
     ELSE IF ~Exists(fsys, The(video_path)) THEN base
     ELSE IF Exists(fsys, mp3_filepath)
       THEN [base EXCEPT !.built = {mp3_filepath},
                         !.ret = Some(mp3_filepath), !.skipRet = Some(mp3_filepath)]
     ELSE [base EXCEPT !.built = {mp3_filepath},
                       !.fs = conv.fs,
                       !.ret = IF conv.raised THEN None ELSE Some(mp3_filepath)]


----------------------------------------------------------------------------
(* main.py, process_download, and the record kept of each invocation *)

\* the outcomes <<meta, streams>> of the extraction client: of reading
\* the metadata in get_video_info (see MetaOutcomes; "other_error": any
\* other exception) and of reading yt.streams ("error": PytubeError)
ExtractionOutcomes ==
  {<<"ok", "ok">>, <<"ok", "error">>, <<"title_error", "ok">>,
   <<"title_error", "error">>, <<"info_error", "ok">>,
   <<"info_error", "error">>, <<"other_error", "ok">>,
   <<"info_other_error", "ok">>}

NoInvocation ==
  [option |-> "none", url |-> <<>>,
   metaFailed |-> FALSE, title |-> <<>>,
   selected |-> FALSE, called |-> FALSE, ret |-> None, success |-> None,
   skipRets |-> {}, built |-> {}, temp |-> None, tempWritten |-> FALSE,
   wrote |-> FALSE]

\* option 1: download_video, then extract_audio on the returned path
VideoAndAudio(fsys, start, v, x) ==
  [fs |-> x.fs,
   log |-> [start EXCEPT
              !.title = x.self.title,
              !.selected = v.selected, !.called = v.called,
              !.ret = v.ret, !.success = x.ret,
              !.skipRets = v.skipRet \cup x.skipRet,
              !.built = v.built \cup x.built,
              !.wrote = (x.fs # fsys)]]

\* option 2: download_audio_only
AudioOnly(fsys, start, a) ==
  [fs |-> a.fs,
   log |-> [start EXCEPT
              !.title = a.self.title,
              !.selected = a.selected, !.called = a.called,
              !.ret = a.ret, !.success = a.ret,
              !.skipRets = a.skipRet, !.built = a.built,
              !.temp = a.temp, !.tempWritten = a.tempWritten,
              !.wrote = (a.fs # fsys)]]

\* option 1 of process_download: extract_audio runs on what download_video
\* returned (a call skipped for no path and one returning None leave the same)
VideoThenExtract(fsys, start, v, cv) ==
  VideoAndAudio(fsys, start, v, extract_audio(v.fs, v.self, v.ret, cv))

\* the body of process_download once the downloader d1 was constructed and
\* get_video_info called (its return value is not looked at); an exception
\* that is no PytubeError raised by get_video_info (meta in Propagating)
\* ends the invocation in the except clause
Dispatch(fsys, option, url, d1, meta, streams, dl, cv) ==
  IF d1.yt # None /\ meta \in Propagating
    THEN [fs |-> fsys,
          log |-> [NoInvocation EXCEPT !.option = option, !.url = url,
                                       !.title = d1.title,
                                       !.metaFailed = TRUE]]
  ELSE IF option = "VIDEO_AND_AUDIO"
    THEN VideoThenExtract(fsys,
           [NoInvocation EXCEPT !.option = option, !.url = url,
                                !.metaFailed = ~d1.ok],
           download_video(fsys, d1, url, meta, streams, dl), cv)
  ELSE AudioOnly(fsys,
         [NoInvocation EXCEPT !.option = option, !.url = url,
                              !.metaFailed = ~d1.ok],
         download_audio_only(fsys, d1, url, meta, streams, dl, cv))

\* self.url of the downloader process_download constructs for each input
NormalizedUrls == {normalize_url(rawUrl) : rawUrl \in DownloadUrls}

\* what get_video_info leaves in the downloader, for each URL and outcome
VideoInfo ==
  [url \in NormalizedUrls, meta \in MetaOutcomes |->
     get_video_info(url, meta)]

\* process_download(url, option): the downloader is constructed on the
\* normalised URL and get_video_info is called first
process_download(fsys, option, url, meta, streams, dl, cv) ==
  Dispatch(fsys, option, url, VideoInfo[url, meta], meta, streams, dl, cv)

\* the files returned so far as successful output, with what they held
Record(prod, fsys, log) ==
  LET new == (log.ret \cup log.success) \ DOMAIN prod
  IN [p \in DOMAIN prod \cup new |-> IF p \in DOMAIN prod THEN prod[p] ELSE fsys[p]]

\* what is kept of the invocation before the last one
Brief(log) ==
  [option |-> log.option, url |-> log.url, title |-> log.title,
   selected |-> log.selected, called |-> log.called, ret |-> log.ret]

\* choice 1 of the CLI loop: process_download(url, VIDEO_AND_AUDIO)
ProcessVideoAndAudio ==
  /\ runs < MaxRuns
  /\ \E url \in NormalizedUrls, ex \in ExtractionOutcomes, fault \in Faults :
       \E inv \in {process_download(fs, "VIDEO_AND_AUDIO", url, ex[1], ex[2],
                                    fault[1], fault[2])} :
          /\ fs' = inv.fs
          /\ last' = inv.log
          /\ prev' = Brief(last)
          /\ produced' = Record(produced, inv.fs, inv.log)
  /\ runs' = runs + 1
  /\ UNCHANGED <<nvars, svars>>

\* choice 2 of the CLI loop: process_download(url, AUDIO_ONLY)
ProcessAudioOnly ==
  /\ runs < MaxRuns
  /\ \E url \in NormalizedUrls, ex \in ExtractionOutcomes, fault \in Faults :
       \E inv \in {process_download(fs, "AUDIO_ONLY", url, ex[1], ex[2],
                                    fault[1], fault[2])} :
          /\ fs' = inv.fs
          /\ last' = inv.log
          /\ prev' = Brief(last)
          /\ produced' = Record(produced, inv.fs, inv.log)
  /\ runs' = runs + 1
  /\ UNCHANGED <<nvars, svars>>

DlInitIdle ==
  /\ fs = <<>> /\ runs = 0
  /\ last = NoInvocation /\ prev = Brief(NoInvocation)
  /\ produced = <<>>

----------------------------------------------------------------------------
(* Specifications *)

Init == NormInitIdle /\ SanInitIdle /\ DlInitIdle
Next == ProcessVideoAndAudio \/ ProcessAudioOnly
Spec == Init /\ [][Next]_vars

NormalizeInit == NormInit /\ SanInitIdle /\ DlInitIdle
NormalizeNext ==
  \/ Normalize /\ UNCHANGED <<svars, dvars>>
  \/ Renormalize /\ UNCHANGED <<svars, dvars>>
SpecNormalize == NormalizeInit /\ [][NormalizeNext]_vars

SanitizeInit == NormInitIdle /\ SanInit /\ DlInitIdle
SanitizeNext == Sanitize /\ UNCHANGED <<nvars, dvars>>
SpecSanitize == SanitizeInit /\ [][SanitizeNext]_vars


----------------------------------------------------------------------------
(* Properties *)

\* two consecutive invocations with the same URL and option that resolved
\* the same metadata (the same title, and a stream selected both times),
\* the first of which returned a path
SameFetchTwice ==
  /\ prev.option # "none"
  /\ prev.option = last.option
  /\ prev.url = last.url
  /\ prev.title = last.title
  /\ prev.selected /\ last.selected
  /\ prev.ret # None

\* C1: when download_video or download_audio_only returned a path and is
\* invoked again with the same URL, the same option and the same metadata,
\* it returns the same path and does not call stream.download.
C1_IdempotentFetch ==
  SameFetchTwice => (last.ret = prev.ret /\ ~last.called)

\* C1 witness: a second identical invocation after a successful one, which
\* returned through the existing-file check.
C1_Witness ==
  /\ SameFetchTwice
  /\ last.skipRets # {}
  /\ prev.called

\* C2: every path returned through the existing-file skip holds the result
\* of a transfer that completed, never a partially written file.
C2_SkipReturnsCompleteFile ==
  \A p \in last.skipRets : p \in DOMAIN fs /\ Complete(fs[p])

\* C3: a file that an invocation returned as its successful output is never
\* afterwards deleted, renamed, truncated or overwritten.
C3_ArtifactsNeverMutated ==
  \A p \in DOMAIN produced : p \in DOMAIN fs /\ fs[p] = produced[p]

\* C4: if get_video_info fails in an invocation of process_download, that
\* invocation selects no stream, starts no stream download, writes no file
\* and reports no success path.
C4_MetadataFailureStopsInvocation ==
  last.metaFailed =>
    /\ ~last.selected
    /\ ~last.called
    /\ ~last.wrote
    /\ last.success = None

\* C5: the short-link form, the shorts form and the query form (with any
\* additional query parameters) of a video id all normalise to
\* https://www.youtube.com/watch?v=<id>.
C5_Convergence ==
  (/\ nstep >= 1
   /\ \/ nshape = "watch"
      \/ (nshape \in {"short", "shorts"} /\ nsuffix = <<>>))
    => nout1 = CanonicalPrefix \o nid

\* C6: normalising the output of _normalize_url again changes nothing,
\* whether the input was recognised or not.
C6_Idempotent == (nstep = 2) => (nout2 = nout1)

\* C6 witness: an input the normaliser rewrote, normalised a second time.
C6_Witness == nstep = 2 /\ nout1 # nurl /\ nshape = "shorts"

\* C7: the output of sanitize_filename holds no reserved character and no
\* control character (code points 0-31) and is at most the maximum length
\* long.
C7_SanitizedSafe ==
  (sstep = 1) =>
    /\ Len(sout) <= SanitizeMaxLen
    /\ \A i \in 1..Len(sout) : sout[i] \notin Reserved /\ sout[i] \notin 0..31

\* out is title with its reserved characters replaced by underscores and the
\* surrounding whitespace trimmed, and nothing else changed
ReplacedAndTrimmed(title, out) ==
  \E lo \in 0..Len(title) :
    /\ lo + Len(out) <= Len(title)
    /\ \A i \in 1..lo : title[i] \in Whitespace
    /\ \A i \in (lo + Len(out) + 1)..Len(title) : title[i] \in Whitespace
    /\ \A i \in 1..Len(out) :
         out[i] = (IF title[lo + i] \in {92, 47, 42, 63, 58, 34, 60, 62, 124}
                     THEN 95 ELSE title[lo + i])
    /\ (out # <<>> => out[1] \notin Whitespace /\ out[Len(out)] \notin Whitespace)

\* C8 as stated: the title con:"bad"/name is sanitised to con_bad_name, and a
\* title no longer than the maximum length is sanitised to itself with its
\* reserved characters replaced by underscores and the surrounding
\* whitespace trimmed.
C8_Original ==
  (sstep = 1) =>
    /\ (stitle = ScenarioTitle =>
          sout = <<99,111,110,95,98,97,100,95,110,97,109,101>>)
    /\ (Len(stitle) <= SanitizeMaxLen => ReplacedAndTrimmed(stitle, sout))

\* C8 amended: the title con:"bad"/name is sanitised to con__bad__name (one
\* underscore for each reserved character), and a title no longer than the
\* maximum length is sanitised to itself with its reserved characters
\* replaced by underscores and the surrounding whitespace trimmed.
C8_Amended ==
  (sstep = 1) =>
    /\ (stitle = ScenarioTitle =>
          sout = <<99,111,110,95,95,98,97,100,95,95,110,97,109,101>>)
    /\ (Len(stitle) <= SanitizeMaxLen => ReplacedAndTrimmed(stitle, sout))

\* C8 witness: the scenario title has been sanitised.
C8_Witness == sstep = 1 /\ stitle = ScenarioTitle /\ Len(sout) = Len(stitle)

\* C9: no destination or temporary path is built with an empty title
\* component: an empty sanitised title is replaced by the video id.
C9_NoEmptyTitlePath == (last.built # {}) => (last.title # <<>>)

\* C10: in an audio-only invocation that wrote the temporary file, the file
\* is still on disk when the invocation failed, and it is gone (removed or
\* renamed) only when the invocation returned the final audio file, fully
\* produced.
C10_TempDeletedOnlyOnSuccess ==
  (last.option = "AUDIO_ONLY" /\ last.tempWritten) =>
    /\ (last.ret = None => The(last.temp) \in DOMAIN fs)
    /\ (The(last.temp) \notin DOMAIN fs =>
          /\ last.ret # None
          /\ The(last.ret) \in DOMAIN fs
          /\ Complete(fs[The(last.ret)]))

\* C10 witness: the transfer completed, the conversion failed, and the
\* temporary file is still on disk.
C10_Witness ==
  /\ last.option = "AUDIO_ONLY" /\ last.tempWritten
  /\ last.ret = None
  /\ The(last.temp) \in DOMAIN fs
  /\ Complete(fs[The(last.temp)])


====
